---- MODULE Spec2Model ----
\* A model of src/pbm.go: the PBM struct, ReadPBM, Save and the in-place
\* transforms.  Files and strings are sequences of bytes (0..255); a bitmap's
\* data is a sequence of rows, each a sequence of BOOLEAN.
EXTENDS Integers, Sequences, FiniteSets, TLC

VARIABLES pbm, file, err, fault, ops, before, reads, scans, rowLines, ioFailed, wstat

vars == <<pbm, file, err, fault, ops, before, reads, scans, rowLines, ioFailed, wstat>>

\* ---------------------------------------------------------------- bounds
\* bitmaps built directly: width, height and pixel count, per specification
MaxWidth == 10
MaxHeight == 3
MaxPixels == 10
MaxOpsPixels == 6
MaxSavePixels == 4
\* bytes of a source file after its two header lines
MaxBody == 3
\* calls of ReadPBM in one run
MaxReads == 1
\* capacity of the bufio.Writer (4096 in bufio), scaled down so that writes
\* reach the file inside the header and the rows, not only at the last Flush
BufSize == 3
\* bytes a failing write to the file may still store
MaxPartial == 1

\* ------------------------------------------------------- character codes
ChNL == 10
ChCR == 13
ChSpace == 32
ChPlus == 43
ChMinus == 45
ChUnderscore == 95
Ch0 == 48
Ch1 == 49
Ch2 == 50
Ch4 == 52
ChP == 80
RuneError == 65533

NoPBM == [none |-> TRUE]
NoFail == 0 - 1

MagicP1 == <<ChP, Ch1>>
MagicP4 == <<ChP, Ch4>>
MagicP2 == <<ChP, Ch2>>

Min(a, b) == IF a < b THEN a ELSE b
Max(a, b) == IF a > b THEN a ELSE b

RECURSIVE Concat(_)
Concat(ss) == IF ss = <<>> THEN <<>> ELSE Head(ss) \o Concat(Tail(ss))

\* bit j (0 = least significant) of a non-negative integer
BitAt(v, j) == (v \div (2 ^ j)) % 2

\* ------------------------------------------------------------ fmt: %d, %c
RECURSIVE Digits(_)
Digits(n) == IF n < 10 THEN <<Ch0 + n>> ELSE Digits(n \div 10) \o <<Ch0 + (n % 10)>>

\* fmt's %d of an int
FmtD(n) == IF n < 0 THEN <<ChMinus>> \o Digits(0 - n) ELSE Digits(n)

\* fmt's %c of a byte: the UTF-8 encoding of the code point byteValue
FmtC(byteValue) ==
    IF byteValue < 128
    THEN <<byteValue>>
    ELSE <<192 + (byteValue \div 64), 128 + (byteValue % 64)>>

\* --------------------------------------------------- range over a string
\* Go's `for _, char := range line`: UTF-8 decoding, an invalid byte yields
\* RuneError and advances one byte.  DecodeRune gives <<rune, size>> for the
\* rune starting at the head of the non-empty s.
InRange(b, lo, hi) == lo <= b /\ b <= hi

Cont(s, i) == i <= Len(s) /\ InRange(s[i], 128, 191)

DecodeRune(s) ==
    LET b0 == s[1]
        bad == <<RuneError, 1>>
        lo2 == IF b0 = 224 THEN 160 ELSE IF b0 = 240 THEN 144 ELSE 128
        hi2 == IF b0 = 237 THEN 159 ELSE IF b0 = 244 THEN 143 ELSE 191
        ok2 == Len(s) >= 2 /\ InRange(s[2], lo2, hi2)
    IN  IF b0 < 128 THEN <<b0, 1>>
        ELSE IF b0 < 194 \/ b0 > 244 THEN bad
        ELSE IF b0 < 224
             THEN IF ok2 THEN <<(b0 % 32) * 64 + (s[2] % 64), 2>> ELSE bad
        ELSE IF b0 < 240
             THEN IF ok2 /\ Cont(s, 3)
                  THEN <<(b0 % 16) * 4096 + (s[2] % 64) * 64 + (s[3] % 64), 3>>
                  ELSE bad
        ELSE IF ok2 /\ Cont(s, 3) /\ Cont(s, 4)
             THEN <<(b0 % 8) * 262144 + (s[2] % 64) * 4096
                      + (s[3] % 64) * 64 + (s[4] % 64), 4>>
             ELSE bad

RECURSIVE Runes(_)
Runes(s) ==
    IF s = <<>> THEN <<>>
    ELSE LET d == DecodeRune(s)
         IN  <<d[1]>> \o Runes(SubSeq(s, d[2] + 1, Len(s)))

\* ---------------------------------------------------------- bufio.Scanner
\* bufio.ScanLines over the bytes src the reader delivers before EOF or a
\* read error: the tokens successive Scan calls return.
IndexByte(s, c) ==
    IF \E i \in 1..Len(s) : s[i] = c
    THEN CHOOSE i \in 1..Len(s) : s[i] = c /\ \A k \in 1..(i - 1) : s[k] # c
    ELSE 0

DropCR(s) == IF Len(s) > 0 /\ s[Len(s)] = ChCR THEN SubSeq(s, 1, Len(s) - 1) ELSE s

RECURSIVE ScanTokens(_)
ScanTokens(src) ==
    IF src = <<>> THEN <<>>
    ELSE LET i == IndexByte(src, ChNL)
         IN  IF i > 0
             THEN <<DropCR(SubSeq(src, 1, i - 1))>> \o ScanTokens(SubSeq(src, i + 1, Len(src)))
             ELSE <<DropCR(src)>>

\* scanner.Text() after the k-th scanner.Scan(): the empty string once Scan
\* has returned false
ScanText(toks, k) == IF k <= Len(toks) THEN toks[k] ELSE <<>>

\* the number of newline-terminated lines in src
RECURSIVE CountNL(_)
CountNL(s) == IF s = <<>> THEN 0 ELSE (IF Head(s) = ChNL THEN 1 ELSE 0) + CountNL(Tail(s))

\* ------------------------------------------------------------ fmt.Sscanf
\* fmt's isSpace, for the runes of one line (a line holds no newline)
IsSpace(r) ==
    \/ InRange(r, 9, 13)
    \/ r \in {32, 133, 160, 5760, 8232, 8233, 8239, 8287, 12288}
    \/ InRange(r, 8192, 8202)

RECURSIVE SkipSpace(_)
SkipSpace(rs) == IF rs # <<>> /\ IsSpace(Head(rs)) THEN SkipSpace(Tail(rs)) ELSE rs

IsDigitRune(r) == InRange(r, Ch0, Ch0 + 9)

\* how many leading runes of rs scanNumber accepts (decimal digits and '_')
RECURSIVE NumberLen(_)
NumberLen(rs) ==
    IF rs # <<>> /\ (IsDigitRune(Head(rs)) \/ Head(rs) = ChUnderscore)
    THEN 1 + NumberLen(Tail(rs))
    ELSE 0

RECURSIVE ParseDigits(_, _)
ParseDigits(ds, acc) ==
    IF ds = <<>> THEN acc ELSE ParseDigits(Tail(ds), acc * 10 + (Head(ds) - Ch0))

\* the verb %d: skip spaces, an optional sign, digits; strconv.ParseInt in
\* base 10 rejects a token holding '_'
ScanInt(rs) ==
    LET r1 == SkipSpace(rs)
        sgn == r1 # <<>> /\ Head(r1) \in {ChPlus, ChMinus}
        r2 == IF sgn THEN Tail(r1) ELSE r1
        n == NumberLen(r2)
        tok == SubSeq(r2, 1, n)
        ok == n > 0 /\ \A i \in 1..n : tok[i] # ChUnderscore
        mag == ParseDigits(tok, 0)
    IN  [ok |-> ok,
         val |-> IF ~ok THEN 0 ELSE IF sgn /\ Head(r1) = ChMinus THEN 0 - mag ELSE mag,
         rest |-> SubSeq(r2, n + 1, Len(r2))]

\* fmt.Sscanf(text, "%d %d", &width, &height) with width, height = 0, 0 before
\* the call and the error ignored: a verb that fails stores nothing and ends
\* the scan; the space of the format wants a space or the end of the input.
Sscanf(text) ==
    LET a == ScanInt(Runes(text))
        spaceOk == a.rest = <<>> \/ IsSpace(Head(a.rest))
        b == ScanInt(a.rest)
    IN  IF ~a.ok THEN [width |-> 0, height |-> 0]
        ELSE IF ~spaceOk \/ ~b.ok THEN [width |-> a.val, height |-> 0]
        ELSE [width |-> a.val, height |-> b.val]

\* --------------------------------------------------------------- ReadPBM
\* the eight pixels of one rune of a P4 line, bit 7 first
UnpackRune(char) == [k \in 1..8 |-> BitAt(char, 8 - k) = 1]

DecodeP4Row(line) ==
    LET rs == Runes(line) IN Concat([i \in 1..Len(rs) |-> UnpackRune(rs[i])])

\* a decoder that takes every rune but '1' for a white pixel
IsPixelRuneNoSkip(char) == TRUE

IsPixelRune(char) == char = Ch0 \/ char = Ch1

DecodeP1Row(line) ==
    LET ds == SelectSeq(Runes(line), IsPixelRune) IN [i \in 1..Len(ds) |-> ds[i] = Ch1]

DecodeRow(isP1, line) == IF isP1 THEN DecodeP1Row(line) ELSE DecodeP4Row(line)

\* a row loop that ends at the end of the input: for scanner.Scan() { ... }
ReadRowsUntilEOF(toks, isP1, height) ==
    LET n == Min(Max(height, 0), Max(Len(toks) - 2, 0))
        lines == [i \in 1..n |-> ScanText(toks, 2 + i)]
    IN  [lines |-> lines,
         data |-> [i \in 1..n |-> DecodeRow(isP1, lines[i])],
         scans |-> n]

\* the row loop: height calls of Scan, whatever they return
ReadRows(toks, isP1, height) ==
    LET n == Max(height, 0)
        lines == [i \in 1..n |-> ScanText(toks, 2 + i)]
    IN  [lines |-> lines,
         data |-> [i \in 1..n |-> DecodeRow(isP1, lines[i])],
         scans |-> n]

IsMagic(magicNumber) == magicNumber = MagicP1 \/ magicNumber = MagicP4

\* a ReadPBM that reads the dimension line before it looks at the magic number
ReadPBMLateCheck(src) ==
    LET toks == ScanTokens(src)
        magicNumber == ScanText(toks, 1)
        dims == Sscanf(ScanText(toks, 2))
    IN  IF ~IsMagic(magicNumber)
        THEN [pbm |-> NoPBM, err |-> "format", scans |-> 2, lines |-> <<>>]
        ELSE LET rows == ReadRows(toks, magicNumber = MagicP1, dims.height)
             IN  [pbm |-> [data |-> rows.data, width |-> dims.width,
                           height |-> dims.height, magicNumber |-> magicNumber],
                  err |-> "nil", scans |-> 2 + rows.scans, lines |-> rows.lines]

\* ReadPBM after a successful os.Open, over the bytes src the file delivers
ReadPBM(src) ==
    LET toks == ScanTokens(src)
        magicNumber == ScanText(toks, 1)
    IN  IF ~IsMagic(magicNumber)
        THEN [pbm |-> NoPBM, err |-> "format", scans |-> 1, lines |-> <<>>]
        ELSE LET dims == Sscanf(ScanText(toks, 2))
                 rows == ReadRows(toks, magicNumber = MagicP1, dims.height)
             IN  [pbm |-> [data |-> rows.data, width |-> dims.width,
                           height |-> dims.height, magicNumber |-> magicNumber],
                  err |-> "nil", scans |-> 2 + rows.scans, lines |-> rows.lines]

\* ---------------------------------------------------------- bufio.Writer
\* w: buf (bytes accepted and not yet written), err (sticky), dest (bytes in
\* the destination file), calls (writes made to the file), and the fault the
\* file injects: its failCall-th write stores failN bytes and fails.
NewWriter(failCall, failN) ==
    [buf |-> <<>>, err |-> FALSE, dest |-> <<>>, calls |-> 0, failedAt |-> NoFail,
     failCall |-> failCall, failN |-> failN]

\* one file.Write(p), p non-empty: <<w', n, failed>>
FileWrite(w, p) ==
    LET c == w.calls + 1
        failed == c = w.failCall
        n == IF failed THEN Min(w.failN, Len(p) - 1) ELSE Len(p)
    IN  [w |-> [w EXCEPT !.calls = c,
                         !.dest = @ \o SubSeq(p, 1, n),
                         !.failedAt = IF failed THEN Len(w.dest) + n ELSE @],
         n |-> n, failed |-> failed]

\* a Flush that writes the buffer again after an earlier write has failed
FlushNotSticky(w) ==
    IF w.buf = <<>> THEN w
    ELSE LET r == FileWrite(w, w.buf)
         IN  IF r.failed
             THEN [r.w EXCEPT !.buf = SubSeq(w.buf, r.n + 1, Len(w.buf)), !.err = TRUE]
             ELSE [r.w EXCEPT !.buf = <<>>]

\* (*bufio.Writer).Flush
Flush(w) ==
    IF w.err \/ w.buf = <<>> THEN w
    ELSE LET r == FileWrite(w, w.buf)
         IN  IF r.failed
             THEN [r.w EXCEPT !.buf = SubSeq(w.buf, r.n + 1, Len(w.buf)), !.err = TRUE]
             ELSE [r.w EXCEPT !.buf = <<>>]

\* (*bufio.Writer).Write
RECURSIVE BufWrite(_, _)
BufWrite(w, p) ==
    IF Len(p) > BufSize - Len(w.buf) /\ ~w.err
    THEN IF w.buf = <<>>
         THEN LET r == FileWrite(w, p)
              IN  BufWrite([r.w EXCEPT !.err = r.failed], SubSeq(p, r.n + 1, Len(p)))
         ELSE LET n == BufSize - Len(w.buf)
              IN  BufWrite(Flush([w EXCEPT !.buf = @ \o SubSeq(p, 1, n)]),
                           SubSeq(p, n + 1, Len(p)))
    ELSE IF w.err THEN w ELSE [w EXCEPT !.buf = @ \o p]

RECURSIVE WriteAll(_, _)
WriteAll(w, chunks) ==
    IF chunks = <<>> THEN w ELSE WriteAll(BufWrite(w, Head(chunks)), Tail(chunks))

\* ------------------------------------------------------------------ Save
\* Each element is the bytes of one fmt.Fprint* call, which makes one Write.
HeaderChunk(b) ==
    b.magicNumber \o <<ChNL>> \o FmtD(b.width) \o <<ChSpace>> \o FmtD(b.height) \o <<ChNL>>

P1RowChunks(row) == [i \in 1..Len(row) |-> <<IF row[i] THEN Ch1 ELSE Ch0, ChSpace>>]

\* byteValue of the chunk of row that starts at index i (0-based)
RECURSIVE PackBits(_, _, _)
PackBits(row, i, j) ==
    IF j = 8 THEN 0
    ELSE (IF i + j < Len(row) /\ row[i + j + 1] THEN 2 ^ (7 - j) ELSE 0)
         + PackBits(row, i, j + 1)

P4RowChunks(row) ==
    [c \in 1..((Len(row) + 7) \div 8) |-> FmtC(PackBits(row, 8 * (c - 1), 0))]

RowChunks(b, row) ==
    (IF b.magicNumber = MagicP1 THEN P1RowChunks(row) ELSE P4RowChunks(row))
        \o << <<ChNL>> >>

SaveChunks(b) ==
    << HeaderChunk(b) >> \o Concat([y \in 1..Len(b.data) |-> RowChunks(b, b.data[y])])

\* Save after a successful os.Create: the writer after the last Flush
Save(b, failCall, failN) == Flush(WriteAll(NewWriter(failCall, failN), SaveChunks(b)))

\* ------------------------------------------------------------ transforms
\* Each gives the data after the call and whether the call panicked (an index
\* out of range); a panic leaves the writes made before it.
NotRow(row, n) == [x \in 1..Len(row) |-> IF x <= n THEN ~row[x] ELSE row[x]]

\* the first row (1-based) whose loop over x indexes past its end, 0 if none
FirstShortRow(data, rows, need) ==
    IF \E y \in 1..rows : y > Len(data) \/ Len(data[y]) < need
    THEN CHOOSE y \in 1..rows : /\ (y > Len(data) \/ Len(data[y]) < need)
                                /\ \A k \in 1..(y - 1) : k <= Len(data) /\ Len(data[k]) >= need
    ELSE 0

Invert(b) ==
    LET h == Max(b.height, 0)
        w == Max(b.width, 0)
        bad == IF w = 0 THEN 0 ELSE FirstShortRow(b.data, h, w)
        done(y) == bad = 0 \/ y < bad
    IN  [data |-> [y \in 1..Len(b.data) |->
                     IF y > h THEN b.data[y]
                     ELSE IF done(y) THEN NotRow(b.data[y], w)
                     ELSE IF y = bad THEN NotRow(b.data[y], Len(b.data[y]))
                     ELSE b.data[y]],
         fault |-> bad # 0]

\* a swap without a temporary: the right half is copied over the left half
FlipRowNoTemp(row, w) ==
    [x \in 1..Len(row) |-> IF x <= w \div 2 THEN row[w + 1 - x] ELSE row[x]]

FlipRow(row, w) ==
    [x \in 1..Len(row) |-> IF x <= w THEN row[w + 1 - x] ELSE row[x]]

Flip(b) ==
    LET h == Max(b.height, 0)
        w == Max(b.width, 0)
        bad == IF w < 2 THEN 0 ELSE FirstShortRow(b.data, h, w)
    IN  [data |-> [y \in 1..Len(b.data) |->
                     IF y <= h /\ (bad = 0 \/ y < bad) /\ w >= 2
                     THEN FlipRow(b.data[y], w) ELSE b.data[y]],
         fault |-> bad # 0]

Flop(b) ==
    LET h == Max(b.height, 0)
        bad == h >= 2 /\ Len(b.data) < h
    IN  [data |-> IF bad \/ h < 2 THEN b.data
                  ELSE [y \in 1..Len(b.data) |-> IF y <= h THEN b.data[h + 1 - y] ELSE b.data[y]],
         fault |-> bad]

Set(b, x, y, value) ==
    LET bad == y < 0 \/ y >= Len(b.data) \/ x < 0 \/ x >= Len(b.data[y + 1])
    IN  [data |-> IF bad THEN b.data ELSE [b.data EXCEPT ![y + 1][x + 1] = value],
         fault |-> bad]

\* --------------------------------------------------------------- actions
\* ops and before remember the last two calls and the bitmap each one found;
\* reads counts the calls of ReadPBM.
Push(h, x) == <<h[2], x>>

Record(name) ==
    /\ ops' = Push(ops, name)
    /\ before' = Push(before, pbm)

\* pbm, err := ReadPBM(filename).  The file delivers its first failAt bytes
\* and then a read error (NoFail: all of it, then EOF).
ReadOp(canFail) ==
    /\ ~fault
    /\ reads < MaxReads
    /\ reads' = reads + 1
    /\ \E openOk \in (IF canFail THEN BOOLEAN ELSE {TRUE}),
          failAt \in (IF canFail THEN {NoFail} \cup (0..Len(file)) ELSE {NoFail}) :
         LET src == IF failAt = NoFail THEN file ELSE SubSeq(file, 1, failAt)
             r == ReadPBM(src)
         IN  /\ pbm' = IF openOk THEN r.pbm ELSE NoPBM
             /\ err' = IF openOk THEN r.err ELSE "open"
             /\ scans' = IF openOk THEN r.scans ELSE 0
             /\ rowLines' = IF openOk THEN r.lines ELSE <<>>
             /\ ioFailed' = (openOk /\ failAt # NoFail /\ r.scans > CountNL(src))
    /\ Record("ReadPBM")
    /\ UNCHANGED <<file, fault, wstat>>

\* err := pbm.Save(filename).  os.Create truncates the file; the failCall-th
\* write to it (0: none) stores at most failN bytes and fails.
SaveOp(canFail) ==
    /\ ~fault
    /\ pbm # NoPBM
    /\ \E createOk \in (IF canFail THEN BOOLEAN ELSE {TRUE}),
          failCall \in (IF canFail THEN 0..Save(pbm, 0, 0).calls ELSE {0}),
          failN \in (IF canFail THEN 0..MaxPartial ELSE {0}) :
         LET w == Save(pbm, failCall, failN)
         IN  /\ file' = IF createOk THEN w.dest ELSE file
             /\ err' = IF ~createOk THEN "create" ELSE IF w.err THEN "write" ELSE "nil"
             /\ wstat' = IF createOk THEN [failedAt |-> w.failedAt, calls |-> w.calls]
                                    ELSE [failedAt |-> NoFail, calls |-> 0]
    /\ Record("Save")
    /\ UNCHANGED <<pbm, fault, reads, scans, rowLines, ioFailed>>

Transform(name, r) ==
    /\ pbm' = [pbm EXCEPT !.data = r.data]
    /\ fault' = r.fault
    /\ Record(name)
    /\ UNCHANGED <<file, err, reads, scans, rowLines, ioFailed, wstat>>

InvertOp == ~fault /\ pbm # NoPBM /\ Transform("Invert", Invert(pbm))

FlipOp == ~fault /\ pbm # NoPBM /\ Transform("Flip", Flip(pbm))

FlopOp == ~fault /\ pbm # NoPBM /\ Transform("Flop", Flop(pbm))

SetOp ==
    /\ ~fault
    /\ pbm # NoPBM
    /\ \E x \in (0 - 1)..pbm.width, y \in (0 - 1)..pbm.height, value \in BOOLEAN :
         Transform("Set", Set(pbm, x, y, value))

SetMagicNumberOp ==
    /\ ~fault
    /\ pbm # NoPBM
    /\ \E magicNumber \in {MagicP1, MagicP4, MagicP2} :
         pbm' = [pbm EXCEPT !.magicNumber = magicNumber]
    /\ Record("SetMagicNumber")
    /\ UNCHANGED <<file, err, fault, reads, scans, rowLines, ioFailed, wstat>>

\* -------------------------------------------------------- specifications
\* bitmaps built directly: height rows of width pixels each
Grids(maxPixels) ==
    UNION {[data : [1..h -> [1..w -> BOOLEAN]], width : {w}, height : {h},
            magicNumber : {MagicP1, MagicP4}] :
           <<w, h>> \in {d \in (0..MaxWidth) \X (0..MaxHeight) : d[1] * d[2] <= maxPixels}}

InitWith(b, f) ==
    /\ pbm = b
    /\ file = f
    /\ err = "nil"
    /\ fault = FALSE
    /\ ops = <<"none", "none">>
    /\ before = <<NoPBM, NoPBM>>
    /\ reads = 0
    /\ scans = 0
    /\ rowLines = <<>>
    /\ ioFailed = FALSE
    /\ wstat = [failedAt |-> NoFail, calls |-> 0]

\* encode and decode without I/O failures
InitCodec == \E b \in Grids(MaxPixels) : InitWith(b, <<>>)
NextCodec == SaveOp(FALSE) \/ ReadOp(FALSE)
SpecCodec == InitCodec /\ [][NextCodec]_vars

\* the in-memory operations
InitOps == \E b \in Grids(MaxOpsPixels) : InitWith(b, <<>>)
NextOps == InvertOp \/ FlipOp \/ FlopOp \/ SetOp \/ SetMagicNumberOp
SpecOps == InitOps /\ [][NextOps]_vars

\* Save against a file that may fail
InitSave == \E b \in Grids(MaxSavePixels) : InitWith(b, <<>>)
NextSave == SaveOp(TRUE)
SpecSave == InitSave /\ [][NextSave]_vars

\* source files: a magic line, a dimension line and up to MaxBody more bytes
MagicLines == {MagicP1, MagicP4, MagicP2, <<>>, MagicP1 \o <<ChCR>>}

DimLines ==
    {<<Ch1, ChSpace, Ch1>>, <<Ch2, ChSpace, Ch2>>, <<Ch0 + 8, ChSpace, Ch1>>,
     <<Ch1, ChSpace, ChMinus, Ch1>>, <<ChP>>}

BodyBytes == {Ch1, ChNL, ChCR, 160, 194}

RECURSIVE SeqsUpTo(_, _)
SeqsUpTo(S, n) ==
    IF n = 0 THEN {<<>>}
    ELSE LET shorter == SeqsUpTo(S, n - 1)
         IN  shorter \cup {Append(q, c) : q \in shorter, c \in S}

SourceFiles ==
    {m \o <<ChNL>> \o d \o <<ChNL>> \o body :
        m \in MagicLines, d \in DimLines, body \in SeqsUpTo(BodyBytes, MaxBody)}
    \cup {<<>>, MagicP2, MagicP1, MagicP4 \o <<ChNL, Ch1>>}

\* ReadPBM against a file that may fail
InitDecode == \E f \in SourceFiles : InitWith(NoPBM, f)
NextDecode == ReadOp(TRUE)
SpecDecode == InitDecode /\ [][NextDecode]_vars

\* ReadPBM and the transforms of what it returns
NextLoaded == ReadOp(FALSE) \/ InvertOp \/ FlipOp \/ FlopOp
SpecLoaded == InitDecode /\ [][NextLoaded]_vars

\* ---------------------------------------------------------------- claims
\* What the claims speak of, stated apart from the operators above.
WellFormed(b) ==
    /\ b # NoPBM
    /\ Len(b.data) = b.height
    /\ \A y \in 1..Len(b.data) : Len(b.data[y]) = b.width

\* row followed by false pixels up to the next multiple of 8
PadTo8(row) == row \o [i \in 1..((8 - (Len(row) % 8)) % 8) |-> FALSE]

\* the byte whose bit (7-j) is set iff pixel 8c+j of row exists and is true
RawByte(row, c) ==
    CHOOSE v \in 0..255 :
        \A j \in 0..7 : (BitAt(v, 7 - j) = 1) <=> (8 * c + j < Len(row) /\ row[8 * c + j + 1])

RawRow(row) == [i \in 1..((Len(row) + 7) \div 8) |-> RawByte(row, i - 1)]

\* the first line of f: up to its first newline, less one closing carriage return
FirstLineOf(f) ==
    LET ends == {i \in 1..Len(f) : f[i] = ChNL}
        n == IF ends = {} THEN Len(f) ELSE (CHOOSE i \in ends : \A k \in ends : i <= k) - 1
    IN  IF n > 0 /\ f[n] = ChCR THEN SubSeq(f, 1, n - 1) ELSE SubSeq(f, 1, n)

\* the number of lines of f, a last line without newline included
NumLinesOf(f) ==
    Cardinality({i \in 1..Len(f) : f[i] = ChNL})
        + (IF f # <<>> /\ f[Len(f)] # ChNL THEN 1 ELSE 0)

SavedThenRead == ops = <<"Save", "ReadPBM">> /\ err = "nil"

\* C1: a well-formed P4 bitmap B that is saved and read back comes back with
\* B's width, height and magic number and with height rows, row y being B's
\* row y padded with false pixels to the next multiple of 8.
C1_RoundTripP4 ==
    (SavedThenRead /\ WellFormed(before[2]) /\ before[2].magicNumber = MagicP4)
        => /\ pbm.width = before[2].width
           /\ pbm.height = before[2].height
           /\ pbm.magicNumber = before[2].magicNumber
           /\ Len(pbm.data) = before[2].height
           /\ \A y \in 1..Len(pbm.data) : pbm.data[y] = PadTo8(before[2].data[y])

\* C2: a well-formed P1 bitmap B that is saved and read back comes back with
\* identical width, height, magic number and rows.
C2_RoundTripP1 ==
    (ops = <<"Save", "ReadPBM">> /\ WellFormed(before[2]) /\ before[2].magicNumber = MagicP1)
        => err = "nil" /\ pbm = before[2]

C2_Witness ==
    /\ ops = <<"Save", "ReadPBM">>
    /\ WellFormed(before[2])
    /\ before[2].magicNumber = MagicP1
    /\ before[2].width >= 2
    /\ before[2].height >= 2
    /\ before[2].data[1][1] /\ ~before[2].data[1][2]
    /\ pbm = before[2]

\* C3: when the first line of the source is neither "P1" nor "P4", ReadPBM
\* returns an error and no bitmap after a single line read.
C3_FormatRejection ==
    (ops[2] = "ReadPBM" /\ err # "open" /\ ~ioFailed /\ ~IsMagic(FirstLineOf(file)))
        => err = "format" /\ pbm = NoPBM /\ scans = 1

C3_Witness ==
    /\ ops[2] = "ReadPBM"
    /\ ~ioFailed
    /\ FirstLineOf(file) = MagicP2
    /\ NumLinesOf(file) >= 3
    /\ err = "format"
    /\ pbm = NoPBM

\* C4: Save of a P4 bitmap writes the header and then, for each row, its
\* ceil(n/8) packed bytes, one byte each, and one newline.
C4_PackedEncoding ==
    (ops[2] = "Save" /\ err = "nil" /\ pbm.magicNumber = MagicP4)
        => file = HeaderChunk(pbm)
                    \o Concat([y \in 1..Len(pbm.data) |-> RawRow(pbm.data[y]) \o <<ChNL>>])

\* C5: ReadPBM of a P4 source unpacks every byte of a row line into eight
\* pixels, bit 7 first, so a line of k bytes gives a row of 8k pixels.
C5_PackedDecoding ==
    (ops[2] = "ReadPBM" /\ err = "nil" /\ pbm.magicNumber = MagicP4)
        => \A y \in 1..Len(pbm.data) :
             /\ Len(pbm.data[y]) = 8 * Len(rowLines[y])
             /\ \A i \in 1..Len(rowLines[y]) : \A j \in 0..7 :
                  8 * (i - 1) + j + 1 <= Len(pbm.data[y])
                    => (pbm.data[y][8 * (i - 1) + j + 1] <=> BitAt(rowLines[y][i], 7 - j) = 1)

\* C6: on a well-formed bitmap each of Invert, Flip and Flop, applied twice
\* in succession, restores rows, width, height and magic number; one Flip
\* keeps the middle column of an odd width, one Flop the middle row of an odd
\* height.
Twice(name) == ops = <<name, name>> /\ WellFormed(before[1])

C6_SelfInverse ==
    /\ \A name \in {"Invert", "Flip", "Flop"} : Twice(name) => ~fault /\ pbm = before[1]
    /\ (ops[2] = "Flip" /\ WellFormed(before[2]) /\ before[2].width % 2 = 1)
         => \A y \in 1..before[2].height :
              pbm.data[y][(before[2].width + 1) \div 2]
                = before[2].data[y][(before[2].width + 1) \div 2]
    /\ (ops[2] = "Flop" /\ WellFormed(before[2]) /\ before[2].height % 2 = 1)
         => pbm.data[(before[2].height + 1) \div 2]
              = before[2].data[(before[2].height + 1) \div 2]

C6_Witness ==
    /\ Twice("Flip")
    /\ before[1].width = 3
    /\ before[1].height >= 1
    /\ before[2] # before[1]
    /\ pbm = before[1]

\* C7: Invert of a bitmap that ReadPBM returned does not fault and negates
\* every pixel of every row, the rows keeping their number and lengths.
C7_InvertNegatesAll ==
    (ops = <<"ReadPBM", "Invert">> /\ before[2] # NoPBM)
        => /\ ~fault
           /\ Len(pbm.data) = Len(before[2].data)
           /\ \A y \in 1..Len(pbm.data) :
                /\ Len(pbm.data[y]) = Len(before[2].data[y])
                /\ \A x \in 1..Len(pbm.data[y]) : pbm.data[y][x] = ~before[2].data[y][x]

\* C8: a Save whose write to the file fails returns an error and leaves in
\* the file only the bytes stored up to the failure; a Save whose file cannot
\* be created returns that error and writes nothing.
C8_WriteFailure ==
    ops[2] = "Save"
        => /\ wstat.failedAt # NoFail
                => /\ err = "write"
                   /\ Len(file) = wstat.failedAt
                   /\ file = SubSeq(Concat(SaveChunks(pbm)), 1, Len(file))
                   /\ Len(file) < Len(Concat(SaveChunks(pbm)))
           /\ err = "create" => wstat.calls = 0
           /\ err = "nil" => wstat.failedAt = NoFail

C8_Witness ==
    /\ ops[2] = "Save"
    /\ err = "write"
    /\ pbm.height >= 2
    /\ wstat.failedAt > Len(HeaderChunk(pbm))
    /\ Len(file) = wstat.failedAt
    /\ wstat.calls >= 2

\* C9: a ReadPBM during which a read of the file fails returns an error and
\* no bitmap.
C9_ReadFailure ==
    (ops[2] = "ReadPBM" /\ ioFailed) => err # "nil" /\ pbm = NoPBM

\* C10: a bitmap that ReadPBM returns with height >= 0 has exactly height
\* rows, read with height line reads; the rows past the last line of the
\* source are empty.
C10_RowCount ==
    (ops[2] = "ReadPBM" /\ err = "nil" /\ pbm.height >= 0)
        => /\ Len(pbm.data) = pbm.height
           /\ scans = 2 + pbm.height
           /\ ~ioFailed => \A y \in 1..pbm.height :
                             2 + y > NumLinesOf(file) => pbm.data[y] = <<>>

C10_Witness ==
    /\ ops[2] = "ReadPBM"
    /\ err = "nil"
    /\ ~ioFailed
    /\ pbm.height = 2
    /\ NumLinesOf(file) = 3
    /\ Len(pbm.data) = 2
    /\ pbm.data[1] # <<>>
    /\ pbm.data[2] = <<>>

====
